---------------------------- MODULE Spec2Model ----------------------------
(***************************************************************************)
(* Model of the landing-page scraper: the card parser, the page            *)
(* aggregator, the priority classifier and the scan orchestrator, in the   *)
(* three variants of the repository (DomainTracker in domain_tracker.py,   *)
(* HeadlessScanner in headless_scanner.py, LiveDomainScanner in            *)
(* live_domain_scanner.py).                                                *)
(*                                                                         *)
(* Strings of the program are sequences of one-character strings, so that  *)
(* strip(), lower(), startswith(), rstrip('/'), split('/') and the price   *)
(* regular expression are computed, not assumed.  Percentages rounded to   *)
(* two decimals are integers in hundredths of a percent (66.67 is 6667);   *)
(* the unrounded quotient the tracker classifies on is a fraction.         *)
(* Timestamps (datetime.now()) are left out of every record.               *)
(***************************************************************************)
EXTENDS Integers, Sequences, FiniteSets, TLC

VARIABLES
    variant,        \* which program runs: "tracker", "headless", "live", or a pure-function harness
    partner_urls,   \* the list of partner URLs handed to the orchestrator
    pc,             \* position of the main program (tracker, headless) or of the harness
    idx,            \* number of partners the sequential loop has gone through (tracker, headless)
    trace,          \* history of the sequential loop: << "get", url, kind, cards >>, << "sleep" >>
    results,        \* DomainTracker.scan_all_partners: the local list `results`
    scan_results,   \* HeadlessScanner / LiveDomainScanner: self.scan_results, a dict in insertion order
    report,         \* << the ScanReport >> returned (tracker, headless) or self.full_scan_data (live); << >> before
    scanning,       \* LiveDomainScanner.scanning
    driver,         \* self.driver: 0 for None, else the id of the driver object
    quit_drivers,   \* the driver objects on which quit() has been called
    result_queue,   \* LiveDomainScanner.result_queue, FIFO
    workers,        \* live: the scan_worker threads started so far, each with its position and locals
    ui,             \* live: widget state the handlers write (buttons, progress bar, status bar)
    input,          \* pure-function harness: the argument drawn at Init
    output          \* pure-function harness: << the values returned >>; << >> before the call

vars == << variant, partner_urls, pc, idx, trace, results, scan_results, report,
           scanning, driver, quit_drivers, result_queue, workers, ui, input, output >>

(***************************************************************************)
(* Bounds of the model.                                                    *)
(***************************************************************************)
MaxCards == 3         \* most domain cards on one page
MaxTotal == 10        \* largest card count given to the classifier harness

(***************************************************************************)
(* Python string operations on sequences of characters.                    *)
(***************************************************************************)
UpperCase == [ c \in {"A", "B", "C", "D", "E", "H", "L", "N", "O", "S", "T", "U", "W", "Y"} |->
                 CASE c = "A" -> "a" [] c = "B" -> "b" [] c = "C" -> "c"
                   [] c = "D" -> "d" [] c = "E" -> "e" [] c = "H" -> "h"
                   [] c = "L" -> "l" [] c = "N" -> "n" [] c = "T" -> "t"
                   [] c = "O" -> "o" [] c = "S" -> "s" [] c = "U" -> "u"
                   [] c = "W" -> "w" [] c = "Y" -> "y" ]

lower(s) == [ k \in 1..Len(s) |-> IF s[k] \in DOMAIN UpperCase THEN UpperCase[s[k]] ELSE s[k] ]

RECURSIVE lstrip(_, _)
lstrip(s, c) == IF s # << >> /\ Head(s) = c THEN lstrip(Tail(s), c) ELSE s

RECURSIVE rstrip(_, _)
rstrip(s, c) == IF s # << >> /\ s[Len(s)] = c THEN rstrip(SubSeq(s, 1, Len(s) - 1), c) ELSE s

strip(s) == rstrip(lstrip(s, " "), " ")

startswith(s, p) == Len(s) >= Len(p) /\ SubSeq(s, 1, Len(p)) = p

\* s.split(sep): the pieces between the separators, at least one piece
RECURSIVE split(_, _)
split(s, sep) ==
    IF \A k \in 1..Len(s) : s[k] # sep
    THEN << s >>
    ELSE LET k == CHOOSE j \in 1..Len(s) : s[j] = sep /\ \A m \in 1..(j - 1) : s[m] # sep
         IN  << SubSeq(s, 1, k - 1) >> \o split(SubSeq(s, k + 1, Len(s)), sep)

Digits == {"0", "1", "2", "3", "4", "5", "6", "7", "8", "9"}

DigitValue == [ c \in Digits |->
                  CASE c = "0" -> 0 [] c = "1" -> 1 [] c = "2" -> 2 [] c = "3" -> 3
                    [] c = "4" -> 4 [] c = "5" -> 5 [] c = "6" -> 6 [] c = "7" -> 7
                    [] c = "8" -> 8 [] c = "9" -> 9 ]

\* int(digits)
RECURSIVE int(_)
int(d) == IF d = << >> THEN 0 ELSE 10 * int(SubSeq(d, 1, Len(d) - 1)) + DigitValue[d[Len(d)]]

\* the longest run of digits at the head of s
RECURSIVE digit_run(_)
digit_run(s) == IF s # << >> /\ Head(s) \in Digits THEN << Head(s) >> \o digit_run(Tail(s)) ELSE << >>

price_search_mut(s) ==
    LET hits == { k \in 1..(Len(s) - 1) : s[k] = "$" /\ s[k + 1] \in Digits }
    IN  IF hits = {} THEN << >>
        ELSE LET k == CHOOSE j \in hits : \A m \in hits : j >= m
             IN  << digit_run(SubSeq(s, k + 1, Len(s))) >>

\* re.search(r'\$(\d+)', s): << >> when nothing matches, else << group(1) >>
price_search(s) ==
    LET hits == { k \in 1..(Len(s) - 1) : s[k] = "$" /\ s[k + 1] \in Digits }
    IN  IF hits = {} THEN << >>
        ELSE LET k == CHOOSE j \in hits : \A m \in hits : j <= m
             IN  << digit_run(SubSeq(s, k + 1, Len(s))) >>


(***************************************************************************)
(* Partner name of a URL.                                                  *)
(***************************************************************************)
\* seq[-1] and seq[-2]; IndexError when the list is too short
IndexError == << "IndexError" >>

last(parts) == parts[Len(parts)]

last_but_one(parts) == IF Len(parts) >= 2 THEN parts[Len(parts) - 1] ELSE IndexError

\* partner_name = url.rstrip('/').split('/')[-1]; if not partner_name: ...[-2]
partner_name(url) ==
    LET parts == split(rstrip(url, "/"), "/")
    IN  IF last(parts) # << >> THEN last(parts) ELSE last_but_one(parts)

\* the except branch of scrape_partner_page:
\* partner_url.split('/')[-1] or partner_url.split('/')[-2]
except_partner_name(url) ==
    LET parts == split(url, "/")
    IN  IF last(parts) # << >> THEN last(parts) ELSE last_but_one(parts)

(***************************************************************************)
(* A domain card, as BeautifulSoup hands it to the card parser.  An        *)
(* optional sub-element or attribute is << >> when absent and << v >> when *)
(* present; a valueless attribute (<button disabled>) has the value ''.    *)
(*   broken  : a sub-element lookup on the fragment raises                 *)
(*   slug    : text of div.domain-slug                                     *)
(*   ending  : text of strong.domain-ending                                *)
(*   button  : [text, sold_class, disabled] of button.add-to-cart          *)
(*   price   : text of div.price                                           *)
(***************************************************************************)
Absent == << >>

Some(v) == << v >>

truthy(attr) == attr # Absent /\ attr[1] # << >>     \* bool(tag.get(name))

has_attr(attr) == attr # Absent                      \* tag.has_attr(name)

EmptyStr == << >>

Unknown == << "U", "n", "k", "n", "o", "w", "n" >>

domain_name_of(card) ==
    IF card.slug # Absent /\ card.ending # Absent
    THEN strip(card.slug[1]) \o strip(card.ending[1])
    ELSE EmptyStr

\* price and price_numeric of the card
price_of(card) ==
    LET price_match == IF card.price = Absent THEN << >> ELSE price_search(strip(card.price[1]))
    IN  IF price_match = << >>
        THEN [price |-> EmptyStr, price_numeric |-> 0]
        ELSE [price |-> << "$" >> \o price_match[1], price_numeric |-> int(price_match[1])]

raw_button_text(card) == IF card.button # Absent THEN strip(card.button[1].text) ELSE EmptyStr

card_record(card, status) ==
    [ domain        |-> domain_name_of(card),
      status        |-> status,
      price         |-> price_of(card).price,
      price_numeric |-> price_of(card).price_numeric,
      button_text   |-> raw_button_text(card) ]

error_record ==
    [ domain |-> Unknown, status |-> "error", price |-> EmptyStr, price_numeric |-> 0,
      error  |-> "str(e)" ]

Txt_sold == << "s", "o", "l", "d" >>

Txt_coming_soon == << "c", "o", "m", "i", "n", "g", " ", "s", "o", "o", "n" >>

Txt_buy_now == << "b", "u", "y", " ", "n", "o", "w" >>

Txt_available == << "a", "v", "a", "i", "l", "a", "b", "l", "e" >>

\* DomainTracker._extract_domain_info: the status comes from the class or the attribute
Tracker_status(card) ==
    LET is_sold == card.button # Absent
                   /\ (card.button[1].sold_class \/ truthy(card.button[1].disabled))
    IN  IF is_sold THEN "sold" ELSE "available"

\* HeadlessScanner.extract_domain_info: the status comes from the text, then class and attribute
Headless_status(card) ==
    LET button_text == IF card.button # Absent THEN lower(strip(card.button[1].text)) ELSE EmptyStr
        has_disabled == IF card.button # Absent THEN has_attr(card.button[1].disabled) ELSE FALSE
        sold_class == IF card.button # Absent THEN card.button[1].sold_class ELSE FALSE
    IN  IF button_text = Txt_sold THEN "sold"
        ELSE IF button_text = Txt_coming_soon THEN "coming_soon"
        ELSE IF button_text = Txt_buy_now THEN "available"
        ELSE IF startswith(button_text, Txt_available) THEN "coming_soon"
        ELSE IF card.button # Absent /\ sold_class /\ has_disabled THEN "sold"
        ELSE "available"

\* LiveDomainScanner.extract_domain_info: no "available" rule, button.get('disabled') as truth value
Live_status(card) ==
    LET button_text == IF card.button # Absent THEN lower(strip(card.button[1].text)) ELSE EmptyStr
    IN  IF button_text = Txt_sold THEN "sold"
        ELSE IF button_text = Txt_coming_soon THEN "coming_soon"
        ELSE IF button_text = Txt_buy_now THEN "available"
        ELSE IF card.button # Absent /\ card.button[1].sold_class /\ truthy(card.button[1].disabled)
             THEN "sold"
        ELSE "available"

Tracker_extract_domain_info(card) ==
    IF card.broken THEN error_record ELSE card_record(card, Tracker_status(card))

Headless_extract_domain_info(card) ==
    IF card.broken THEN error_record ELSE card_record(card, Headless_status(card))

Live_extract_domain_info(card) ==
    IF card.broken THEN error_record ELSE card_record(card, Live_status(card))


(***************************************************************************)
(* Numbers: the unrounded percentage is the fraction num/den; round(x, 2)  *)
(* gives hundredths, to the nearest.  A tie needs a card count that is a   *)
(* multiple of 32, beyond the bounds; there the float's binary value       *)
(* decides, and round2 stands for it with the even neighbour.              *)
(***************************************************************************)
\* (sold_count / total_count * 100) if total_count > 0 else 0
percentage(sold_count, total_count) ==
    IF total_count > 0 THEN [num |-> sold_count * 100, den |-> total_count]
    ELSE [num |-> 0, den |-> 1]

round2_mut(x) == (x.num * 100) \div x.den

round2(x) ==
    LET q == (x.num * 100) \div x.den
        r == (x.num * 100) % x.den
    IN  IF 2 * r < x.den THEN q
        ELSE IF 2 * r > x.den THEN q + 1
        ELSE IF q % 2 = 0 THEN q ELSE q + 1

RECURSIVE sum(_, _)
sum(seq, field) == IF seq = << >> THEN 0 ELSE seq[1][field] + sum(Tail(seq), field)

is_sold(d) == d.status = "sold"

is_available_mut(d) == d.status # "sold"

is_available(d) == d.status = "available"

sold_value_mut(domains) ==
    sum(SelectSeq(domains, LAMBDA d : d.price_numeric > 0), "price_numeric")

\* the loop over the cards: sold_count and total_sold_value
sold_value(domains) ==
    sum(SelectSeq(domains, LAMBDA d : d.status = "sold" /\ d.price_numeric > 0), "price_numeric")

(***************************************************************************)
(* Priority classifier, as each variant writes it into its report.  A      *)
(* reason is the message with its two numbers.                             *)
(***************************************************************************)
classification(needs_update, priority, reason) ==
    [needs_update |-> needs_update, priority |-> priority, reason |-> reason]

NoDomains == classification(FALSE, "none", << "No premium domains on this page" >>)

Tracker_needs_update_mut(percentage_sold, sold_count, total_count, has_premium_domains) ==
    IF ~has_premium_domains THEN NoDomains
    ELSE IF percentage_sold.num >= 90 * percentage_sold.den
         THEN classification(TRUE, "high", << "Almost sold out", sold_count, total_count >>)
    ELSE IF percentage_sold.num >= 50 * percentage_sold.den
         THEN classification(TRUE, "medium", << "Mostly sold", sold_count, total_count >>)
    ELSE IF sold_count = total_count
         THEN classification(TRUE, "high", << "Completely sold out" >>)
    ELSE classification(FALSE, "low", << >>)

\* DomainTracker._needs_update; percentage_sold is the unrounded fraction
Tracker_needs_update(percentage_sold, sold_count, total_count, has_premium_domains) ==
    IF ~has_premium_domains THEN NoDomains
    ELSE IF percentage_sold.num >= 90 * percentage_sold.den
         THEN classification(TRUE, "high", << "Almost sold out", sold_count, total_count >>)
    ELSE IF percentage_sold.num >= 75 * percentage_sold.den
         THEN classification(TRUE, "medium", << "Mostly sold", sold_count, total_count >>)
    ELSE IF sold_count = total_count
         THEN classification(TRUE, "high", << "Completely sold out" >>)
    ELSE classification(FALSE, "low", << >>)

\* HeadlessScanner.generate_report, needs_update_info; percentage_sold is in hundredths
Headless_needs_update_info(result) ==
    IF ~result.has_domains THEN NoDomains
    ELSE IF result.percentage_sold >= 9000
         THEN classification(TRUE, "high",
                             << "Almost sold out", result.sold_domains, result.total_domains >>)
    ELSE IF result.percentage_sold >= 5000
         THEN classification(TRUE, "medium",
                             << "Mostly sold", result.sold_domains, result.total_domains >>)
    ELSE classification(FALSE, "low", << >>)

\* LiveDomainScanner.generate_full_scan_data, needs_update_info
Live_needs_update_info(result) ==
    IF ~result.has_domains THEN NoDomains
    ELSE IF result.percentage_sold >= 9000
         THEN classification(TRUE, "high",
                             << "Almost sold out", result.sold_domains, result.total_domains >>)
    ELSE IF result.percentage_sold >= 7500
         THEN classification(TRUE, "medium",
                             << "Mostly sold", result.sold_domains, result.total_domains >>)
    ELSE classification(FALSE, "low", << >>)

(***************************************************************************)
(* What one visit of the page fetcher gives:                               *)
(*   kind "page"            the wait for the card marker succeeded         *)
(*   kind "timeout"         the wait timed out (TimeoutException)          *)
(*   kind "webdriver_error" driver.get raised a WebDriverException         *)
(*   kind "exception"       another exception while fetching or parsing    *)
(* and cards, the div.domain-card elements of the page source read after   *)
(* the wait.                                                               *)
(***************************************************************************)
Tracker_parse_all(cards) == [ k \in 1..Len(cards) |-> Tracker_extract_domain_info(cards[k]) ]

Headless_parse_all(cards) == [ k \in 1..Len(cards) |-> Headless_extract_domain_info(cards[k]) ]

Live_parse_all(cards) == [ k \in 1..Len(cards) |-> Live_extract_domain_info(cards[k]) ]

Raised == [raised |-> "IndexError"]

Tracker_error_entry(partner, url, error) ==
    [partner |-> partner, url |-> url, error |-> error, has_premium_domains |-> FALSE]

Tracker_page_entry_mut(partner, url, domains) ==
    LET sold_count == Len(SelectSeq(domains, is_sold))
        total_count == Len(domains)
        percentage_sold == percentage(sold_count, total_count)
    IN  [ partner                |-> partner,
          url                    |-> url,
          has_premium_domains    |-> total_count > 0,
          total_domains          |-> total_count,
          sold_domains           |-> sold_count,
          available_domains      |-> total_count - sold_count,
          percentage_sold        |-> round2(percentage_sold),
          total_sold_value       |-> sold_value(domains),
          domains                |-> domains,
          sold_domains_list      |-> SelectSeq(domains, is_sold),
          available_domains_list |-> SelectSeq(domains, is_available),
          needs_update           |-> Tracker_needs_update(percentage_sold, sold_count, total_count,
                                                          TRUE) ]

\* DomainTracker.scrape_partner_page, lines 93-138: the entry of a page that was retrieved
Tracker_page_entry(partner, url, domains) ==
    LET sold_count == Len(SelectSeq(domains, is_sold))
        total_count == Len(domains)
        percentage_sold == percentage(sold_count, total_count)
    IN  [ partner                |-> partner,
          url                    |-> url,
          has_premium_domains    |-> total_count > 0,
          total_domains          |-> total_count,
          sold_domains           |-> sold_count,
          available_domains      |-> total_count - sold_count,
          percentage_sold        |-> round2(percentage_sold),
          total_sold_value       |-> sold_value(domains),
          domains                |-> domains,
          sold_domains_list      |-> SelectSeq(domains, is_sold),
          available_domains_list |-> SelectSeq(domains, is_available),
          needs_update           |-> Tracker_needs_update(percentage_sold, sold_count, total_count,
                                                          total_count > 0) ]

\* DomainTracker.scrape_partner_page: an entry, or Raised when the except branch raises too
scrape_partner_page(partner_url, outcome) ==
    IF partner_name(partner_url) = IndexError \/ outcome.kind = "exception"
    THEN IF except_partner_name(partner_url) = IndexError THEN Raised
         ELSE Tracker_error_entry(except_partner_name(partner_url), partner_url, "Parsing failed")
    ELSE IF outcome.kind = "webdriver_error"
    THEN Tracker_error_entry(partner_name(partner_url), partner_url,
                             "Failed to retrieve page content")
    ELSE Tracker_page_entry(partner_name(partner_url), partner_url,
                            Tracker_parse_all(outcome.cards))

\* the ScanResult dataclass of headless_scanner.py and live_domain_scanner.py
ScanResult(partner, url, status, has_domains, domains_data, error_message) ==
    [ partner          |-> partner,
      url              |-> url,
      status           |-> status,
      has_domains      |-> has_domains,
      total_domains    |-> Len(domains_data),
      sold_domains     |-> Len(SelectSeq(domains_data, is_sold)),
      percentage_sold  |-> round2(percentage(Len(SelectSeq(domains_data, is_sold)), Len(domains_data))),
      total_sold_value |-> sold_value(domains_data),
      error_message    |-> error_message,
      domains_data     |-> domains_data ]

\* scan_partner of HeadlessScanner and LiveDomainScanner, which differ in the card parser
\* only; domains_data is the list the variant's parser makes of the page's cards
scan_partner(url, name, outcome, domains_data) ==
    IF outcome.kind \in {"webdriver_error", "exception"}
    THEN ScanResult(name, url, "error", FALSE, << >>, "str(e)")
    ELSE IF outcome.kind = "timeout" \/ Len(outcome.cards) = 0
    THEN ScanResult(name, url, "completed", FALSE, << >>, "")
    ELSE ScanResult(name, url, "completed", TRUE, domains_data, "")

Headless_scan_partner(url, name, outcome) ==
    scan_partner(url, name, outcome, Headless_parse_all(outcome.cards))

Live_scan_partner(url, name, outcome) ==
    scan_partner(url, name, outcome, Live_parse_all(outcome.cards))

(***************************************************************************)
(* self.scan_results: a dict, modelled as the sequence of its values in    *)
(* insertion order, with one value per key (the partner name).             *)
(***************************************************************************)
\* self.scan_results[result.partner] = result
dict_set(d, result) ==
    IF \E k \in 1..Len(d) : d[k].partner = result.partner
    THEN [ k \in 1..Len(d) |-> IF d[k].partner = result.partner THEN result ELSE d[k] ]
    ELSE Append(d, result)

(***************************************************************************)
(* Ordering of strings (sorted(..., key=lambda r: r.partner.lower())).     *)
(***************************************************************************)
\* the characters of partner names, in code point order
CodePoints == << "/", "A", "B", "C", "a", "b", "c", "g", "h" >>

ord(c) == CHOOSE k \in 1..Len(CodePoints) : CodePoints[k] = c

\* a < b on Python strings
str_lt(a, b) ==
    \E k \in 1..(Len(a) + 1) :
        /\ k <= Len(b)
        /\ \A m \in 1..(k - 1) : a[m] = b[m]
        /\ (k = Len(a) + 1 \/ ord(a[k]) < ord(b[k]))

\* list.sort / sorted with a key, on pairs [key, val]: a stable sort, by insertion of each
\* element behind every element whose key is not greater
insert_sorted(s, x) ==
    LET n == Cardinality({ k \in 1..Len(s) : ~str_lt(x.key, s[k].key) })
    IN  SubSeq(s, 1, n) \o << x >> \o SubSeq(s, n + 1, Len(s))

sorted_mut(s) == s

RECURSIVE sorted(_)
sorted(s) ==
    IF s = << >> THEN << >>
    ELSE insert_sorted(sorted(SubSeq(s, 1, Len(s) - 1)), s[Len(s)])

values_of(pairs) == [ k \in 1..Len(pairs) |-> pairs[k].val ]

(***************************************************************************)
(* Reports.                                                                *)
(***************************************************************************)
is_error_entry(r) == "error" \in DOMAIN r

\* DomainTracker._generate_summary
Tracker_generate_summary_mut(rs) ==
    LET successful_scans == SelectSeq(rs, LAMBDA r : ~is_error_entry(r))
        failed_scans == SelectSeq(rs, is_error_entry)
        pages_with_domains == SelectSeq(successful_scans, LAMBDA r : r.has_premium_domains)
        pages_without_domains == SelectSeq(successful_scans, LAMBDA r : ~r.has_premium_domains)
        needs_update == SelectSeq(pages_with_domains, LAMBDA r : r.needs_update.needs_update)
        high_priority == SelectSeq(needs_update, LAMBDA r : r.needs_update.priority = "high")
        total_domains == sum(pages_with_domains, "total_domains")
        total_sold == sum(pages_with_domains, "sold_domains")
    IN  [ total_partners_scanned            |-> Len(rs),
          successful_scans                  |-> Len(successful_scans),
          failed_scans                      |-> Len(failed_scans),
          pages_with_premium_domains        |-> Len(pages_with_domains),
          pages_without_premium_domains     |-> Len(pages_without_domains),
          partners_needing_update           |-> Len(needs_update),
          high_priority_updates             |-> Len(high_priority),
          total_domains_across_all_partners |-> total_domains,
          total_sold_across_all_partners    |-> total_sold,
          total_sold_value                  |-> sum(needs_update, "total_sold_value"),
          overall_sell_through_rate         |-> round2(percentage(total_sold, total_domains)) ]

\* DomainTracker._generate_summary
Tracker_generate_summary(rs) ==
    LET successful_scans == SelectSeq(rs, LAMBDA r : ~is_error_entry(r))
        failed_scans == SelectSeq(rs, is_error_entry)
        pages_with_domains == SelectSeq(successful_scans, LAMBDA r : r.has_premium_domains)
        pages_without_domains == SelectSeq(successful_scans, LAMBDA r : ~r.has_premium_domains)
        needs_update == SelectSeq(pages_with_domains, LAMBDA r : r.needs_update.needs_update)
        high_priority == SelectSeq(needs_update, LAMBDA r : r.needs_update.priority = "high")
        total_domains == sum(pages_with_domains, "total_domains")
        total_sold == sum(pages_with_domains, "sold_domains")
    IN  [ total_partners_scanned            |-> Len(rs),
          successful_scans                  |-> Len(successful_scans),
          failed_scans                      |-> Len(failed_scans),
          pages_with_premium_domains        |-> Len(pages_with_domains),
          pages_without_premium_domains     |-> Len(pages_without_domains),
          partners_needing_update           |-> Len(needs_update),
          high_priority_updates             |-> Len(high_priority),
          total_domains_across_all_partners |-> total_domains,
          total_sold_across_all_partners    |-> total_sold,
          total_sold_value                  |-> sum(pages_with_domains, "total_sold_value"),
          overall_sell_through_rate         |-> round2(percentage(total_sold, total_domains)) ]

Scanner_summary_mut2(values, medium) ==
    LET completed_results == SelectSeq(values, LAMBDA r : r.status = "completed")
        with_domains == SelectSeq(completed_results, LAMBDA r : r.has_domains)
        without_domains == SelectSeq(completed_results, LAMBDA r : ~r.has_domains)
        total_domains == sum(with_domains, "total_domains")
        total_sold == sum(with_domains, "sold_domains")
    IN  [ total_partners_scanned            |-> Len(values),
          successful_scans                  |-> Len(completed_results),
          failed_scans                      |-> Len(SelectSeq(values, LAMBDA r : r.status = "error")),
          pages_with_premium_domains        |-> Len(with_domains),
          pages_without_premium_domains     |-> Len(values) - Len(with_domains),
          partners_needing_update           |-> Len(SelectSeq(with_domains,
                                                      LAMBDA r : r.percentage_sold >= medium)),
          high_priority_updates             |-> Len(SelectSeq(with_domains,
                                                      LAMBDA r : r.percentage_sold >= 9000)),
          total_domains_across_all_partners |-> total_domains,
          total_sold_across_all_partners    |-> total_sold,
          total_sold_value                  |-> sum(with_domains, "total_sold_value"),
          overall_sell_through_rate         |-> round2(percentage(total_sold, total_domains)) ]

Scanner_summary_mut(values, medium) ==
    LET completed_results == SelectSeq(values, LAMBDA r : r.status = "completed")
        with_domains == SelectSeq(completed_results, LAMBDA r : r.has_domains)
        without_domains == SelectSeq(completed_results, LAMBDA r : ~r.has_domains)
        total_domains == sum(with_domains, "total_domains")
        total_sold == sum(with_domains, "sold_domains")
    IN  [ total_partners_scanned            |-> Len(values),
          successful_scans                  |-> Len(completed_results),
          failed_scans                      |-> 0,
          pages_with_premium_domains        |-> Len(with_domains),
          pages_without_premium_domains     |-> Len(without_domains),
          partners_needing_update           |-> Len(SelectSeq(with_domains,
                                                      LAMBDA r : r.percentage_sold >= medium)),
          high_priority_updates             |-> Len(SelectSeq(with_domains,
                                                      LAMBDA r : r.percentage_sold >= 9000)),
          total_domains_across_all_partners |-> total_domains,
          total_sold_across_all_partners    |-> total_sold,
          total_sold_value                  |-> sum(with_domains, "total_sold_value"),
          overall_sell_through_rate         |-> round2(percentage(total_sold, total_domains)) ]

\* the summary of HeadlessScanner.generate_report (medium = 5000 hundredths) and of
\* LiveDomainScanner.generate_full_scan_data (medium = 7500), over the values of scan_results
Scanner_summary(values, medium) ==
    LET completed_results == SelectSeq(values, LAMBDA r : r.status = "completed")
        with_domains == SelectSeq(completed_results, LAMBDA r : r.has_domains)
        without_domains == SelectSeq(completed_results, LAMBDA r : ~r.has_domains)
        total_domains == sum(with_domains, "total_domains")
        total_sold == sum(with_domains, "sold_domains")
    IN  [ total_partners_scanned            |-> Len(values),
          successful_scans                  |-> Len(completed_results),
          failed_scans                      |-> Len(SelectSeq(values, LAMBDA r : r.status = "error")),
          pages_with_premium_domains        |-> Len(with_domains),
          pages_without_premium_domains     |-> Len(without_domains),
          partners_needing_update           |-> Len(SelectSeq(with_domains,
                                                      LAMBDA r : r.percentage_sold >= medium)),
          high_priority_updates             |-> Len(SelectSeq(with_domains,
                                                      LAMBDA r : r.percentage_sold >= 9000)),
          total_domains_across_all_partners |-> total_domains,
          total_sold_across_all_partners    |-> total_sold,
          total_sold_value                  |-> sum(with_domains, "total_sold_value"),
          overall_sell_through_rate         |-> round2(percentage(total_sold, total_domains)) ]

Scanner_entry_mut(result, needs_update_info) ==
    IF result.status = "error"
    THEN [ partner |-> result.partner, url |-> result.url, error |-> result.error_message,
           has_premium_domains |-> FALSE ]
    ELSE [ partner                |-> result.partner,
           url                    |-> result.url,
           has_premium_domains    |-> result.has_domains,
           total_domains          |-> result.total_domains,
           sold_domains           |-> result.sold_domains,
           available_domains      |-> Len(SelectSeq(result.domains_data, is_available)),
           percentage_sold        |-> result.percentage_sold,
           total_sold_value       |-> result.total_sold_value,
           domains                |-> result.domains_data,
           sold_domains_list      |-> SelectSeq(result.domains_data, is_sold),
           available_domains_list |-> SelectSeq(result.domains_data, is_available),
           needs_update           |-> needs_update_info ]

\* one element of the report's results list, from a ScanResult and its needs_update_info
Scanner_entry(result, needs_update_info) ==
    IF result.status = "error"
    THEN [ partner |-> result.partner, url |-> result.url, error |-> result.error_message,
           has_premium_domains |-> FALSE ]
    ELSE [ partner                |-> result.partner,
           url                    |-> result.url,
           has_premium_domains    |-> result.has_domains,
           total_domains          |-> result.total_domains,
           sold_domains           |-> result.sold_domains,
           available_domains      |-> result.total_domains - result.sold_domains,
           percentage_sold        |-> result.percentage_sold,
           total_sold_value       |-> result.total_sold_value,
           domains                |-> result.domains_data,
           sold_domains_list      |-> SelectSeq(result.domains_data, is_sold),
           available_domains_list |-> SelectSeq(result.domains_data, is_available),
           needs_update           |-> needs_update_info ]

Headless_generate_report_mut(values) ==
    LET sorted_results ==
            values_of(sorted([ k \in 1..Len(values) |->
                                [key |-> lower(values[k].partner), val |-> values[k]] ]))
    IN  [ summary |-> Scanner_summary(values, 7500),
          results |-> [ k \in 1..Len(sorted_results) |->
                          Scanner_entry(sorted_results[k],
                                        Headless_needs_update_info(sorted_results[k])) ] ]

\* HeadlessScanner.generate_report
Headless_generate_report(values) ==
    LET sorted_results ==
            values_of(sorted([ k \in 1..Len(values) |->
                                [key |-> lower(values[k].partner), val |-> values[k]] ]))
    IN  [ summary |-> Scanner_summary(values, 5000),
          results |-> [ k \in 1..Len(sorted_results) |->
                          Scanner_entry(sorted_results[k],
                                        Headless_needs_update_info(sorted_results[k])) ] ]

\* LiveDomainScanner.generate_full_scan_data
Live_generate_full_scan_data(values) ==
    [ summary |-> Scanner_summary(values, 7500),
      results |-> [ k \in 1..Len(values) |-> Scanner_entry(values[k],
                                                Live_needs_update_info(values[k])) ] ]

\* the return value of DomainTracker.scan_all_partners
Tracker_report(rs) == [ summary |-> Tracker_generate_summary(rs), results |-> rs ]

(***************************************************************************)
(* The inputs the model runs on.                                           *)
(***************************************************************************)
Str_Sold == << "S", "o", "l", "d" >>

Str_SOLD_padded == << " ", "S", "O", "L", "D", " " >>

Str_Coming_Soon == << "C", "o", "m", "i", "n", "g", " ", "S", "o", "o", "n" >>

Str_Buy_Now == << "B", "u", "y", " ", "N", "o", "w" >>

Str_Available_Soon == << "A", "v", "a", "i", "l", "a", "b", "l", "e", " ", "S", "o", "o", "n" >>

Str_Add == << "A", "d", "d" >>

Str_250_USD == << "$", "2", "5", "0", " ", "U", "S", "D" >>

Str_Contact_us == << "C", "o", "n", "t", "a", "c", "t", " ", "u", "s" >>

Str_5_to_30 == << "$", "5", "-", "$", "3", "0" >>

Str_dollar_gap == << "$", " ", "9" >>

Str_US_1_250 == << "U", "S", "$", "1", ",", "2", "5", "0" >>

PriceTexts == { Str_250_USD, Str_Contact_us, Str_5_to_30, Str_dollar_gap, Str_US_1_250 }

Str_moon == << "m", "o", "o", "n" >>

Str_dot_com == << ".", "c", "o", "m" >>

ButtonTexts == { Str_Sold, Str_SOLD_padded, Str_Coming_Soon, Str_Buy_Now, Str_Available_Soon,
                 Str_Add, EmptyStr }

\* the disabled attribute: absent, valueless (disabled), with a value (disabled="disabled")
DisabledValues == { Absent, Some(EmptyStr), Some(<< "d" >>) }

Buttons == [ text : ButtonTexts, sold_class : BOOLEAN, disabled : DisabledValues ]

Card(button, price) ==
    [ broken |-> FALSE, slug |-> Some(Str_moon), ending |-> Some(Str_dot_com),
      button |-> button, price |-> price ]

BrokenCard == [ Card(Absent, Absent) EXCEPT !.broken = TRUE ]

\* the cards given to the card parser harness
ParserCards ==
    { Card(b, p) : b \in { Some(x) : x \in Buttons } \cup { Absent },
                   p \in { Some(x) : x \in PriceTexts } \cup { Absent } }
    \cup { BrokenCard }

Button(text, sold_class, disabled) ==
    Some([text |-> text, sold_class |-> sold_class, disabled |-> disabled])

\* the cards of the pages the scans visit: a sold one, one on sale, one announced, a broken one
SoldCard == Card(Button(Str_Sold, TRUE, Some(EmptyStr)), Some(Str_250_USD))

BuyNowCard == Card(Button(Str_Buy_Now, FALSE, Absent), Some(Str_Contact_us))

AnnouncedCard == Card(Button(Str_Available_Soon, TRUE, Some(<< "d" >>)), Some(Str_250_USD))

ScanCards == << SoldCard, BuyNowCard, AnnouncedCard, BrokenCard >>

\* the index sequences of length up to n over 1..m
RECURSIVE IndexSeqs(_, _)
IndexSeqs(m, n) ==
    IF n = 0 THEN { << >> }
    ELSE LET shorter == IndexSeqs(m, n - 1)
         IN  shorter \cup { Append(q, x) : q \in { t \in shorter : Len(t) = n - 1 },
                                            x \in 1..m }

\* the pages: up to MaxCards cards, the kinds in the order of ScanCards
Pages ==
    { [ k \in 1..Len(f) |-> ScanCards[f[k]] ] :
        f \in { g \in IndexSeqs(Len(ScanCards), MaxCards) :
                  \A k \in 1..(Len(g) - 1) : g[k] <= g[k + 1] } }

\* after a wait that timed out the page source has no card, or the one that came late
Outcomes ==
    { [kind |-> k, cards |-> << >>] : k \in {"webdriver_error", "exception"} }
    \cup { [kind |-> "page", cards |-> p] : p \in Pages }
    \cup { [kind |-> "timeout", cards |-> p] : p \in { << >>, << SoldCard >> } }

U_a == << "h", "/", "a", "/" >>

U_a2 == << "g", "/", "a", "/" >>

U_b == << "h", "/", "b", "/" >>

U_C == << "h", "/", "C", "/" >>

\* what a visit of url can give; the page at U_C has one card at most
OutcomesAt(url) == IF url = U_C THEN { o \in Outcomes : Len(o.cards) <= 1 } ELSE Outcomes

\* the URL of page a without a trailing slash, with two, and a URL that is a slash only
U_a_bare == << "h", "/", "a" >>

U_a_slashes == << "h", "/", "a", "/", "/" >>

U_root == << "/" >>

\* the lists DomainTracker.scan_all_partners is called with
PartnerLists ==
    { << >>, << U_a >>, << U_a, U_b >>, << U_b, U_a >>, << U_a, U_a2 >>, << U_a, U_a >>,
      << U_a, U_b, U_C >>, << U_a_bare >>, << U_a_slashes >>, << U_root >> }

\* get_urls_from_sheet sorts the rows by url.rstrip('/').split('/')[-1].lower()
sheet_sort(urls) ==
    values_of(sorted([ k \in 1..Len(urls) |->
                         [key |-> lower(last(split(rstrip(urls[k], "/"), "/"))), val |-> urls[k]] ]))

\* the lists HeadlessScanner.partner_urls can hold: get_urls_from_sheet keeps every row
\* with a non-empty URL, ends it with a slash, and sorts
HeadlessLists ==
    { sheet_sort(urls) : urls \in { l \in PartnerLists : \A k \in 1..Len(l) : last(l[k]) = "/" } }

\* the lists LiveDomainScanner.setup_default_urls can leave in partner_urls: the literal
\* list, without duplicates (dict.fromkeys); its names are pairwise different
LiveLists == { << >>, << U_a >>, << U_b, U_a >> }

\* what the live workers' fetches give: a failure, no card, a page of two cards, one of one
LiveOutcomes ==
    { [kind |-> "webdriver_error", cards |-> << >>],
      [kind |-> "exception", cards |-> << >>],
      [kind |-> "timeout", cards |-> << >>],
      [kind |-> "page", cards |-> << SoldCard, AnnouncedCard >>],
      [kind |-> "page", cards |-> << BuyNowCard >>] }

\* the scan_worker threads one run of the model starts, and the fetches they make in total
WorkerIds == {1, 2}

FetchNumbers == {1, 2}

(***************************************************************************)
(* State after construction.                                               *)
(***************************************************************************)
Widgets == [ scan_btn |-> "normal", stop_btn |-> "disabled", export_btn |-> "disabled",
             progress |-> 0, status_bar |-> << "Ready" >> ]

Idle ==
    /\ idx = 0
    /\ trace = << >>
    /\ results = << >>
    /\ scan_results = << >>
    /\ report = << >>
    /\ scanning = FALSE
    /\ driver = 0
    /\ quit_drivers = {}
    /\ result_queue = << >>
    /\ workers = << >>
    /\ ui = Widgets
    /\ output = << >>

Init ==
    /\ variant \in {"tracker", "headless", "live"}
    /\ partner_urls \in CASE variant = "tracker" -> PartnerLists
                          [] variant = "headless" -> HeadlessLists
                          [] variant = "live" -> LiveLists
    /\ pc = "start"
    /\ input = << >>
    /\ Idle

(***************************************************************************)
(* DomainTracker: __init__ and scan_all_partners.                          *)
(***************************************************************************)
\* DomainTracker.__init__ / _setup_selenium: the driver is created, or __init__ raises
TrackerInit ==
    /\ variant = "tracker" /\ pc = "start"
    /\ \E ok \in BOOLEAN :
         IF ok THEN driver' = 1 /\ pc' = "scanning"
         ELSE driver' = 0 /\ pc' = "failed"
    /\ UNCHANGED << variant, partner_urls, idx, trace, results, scan_results, report, scanning,
                    quit_drivers, result_queue, workers, ui, input, output >>

\* one iteration of the loop of scan_all_partners: scrape, append, sleep between requests
TrackerScanPartner ==
    /\ variant = "tracker" /\ pc = "scanning" /\ idx < Len(partner_urls)
    /\ \E outcome \in OutcomesAt(partner_urls[idx + 1]) :
         LET url == partner_urls[idx + 1]
             result == scrape_partner_page(url, outcome)
             got == IF partner_name(url) = IndexError THEN << >>
                    ELSE << << "get", url, outcome.kind, Len(outcome.cards) >> >>
             slept == IF idx + 1 < Len(partner_urls) THEN << << "sleep" >> >> ELSE << >>
         IN  IF result = Raised
             THEN /\ pc' = "crashed"
                  /\ trace' = trace \o got
                  /\ UNCHANGED << idx, results >>
             ELSE /\ results' = Append(results, result)
                  /\ idx' = idx + 1
                  /\ trace' = trace \o got \o slept
                  /\ pc' = pc
    /\ UNCHANGED << variant, partner_urls, scan_results, report, scanning, driver, quit_drivers,
                    result_queue, workers, ui, input, output >>

\* the end of scan_all_partners: the summary and the returned report
TrackerFinish ==
    /\ variant = "tracker" /\ pc = "scanning" /\ idx = Len(partner_urls)
    /\ report' = << Tracker_report(results) >>
    /\ pc' = "done"
    /\ UNCHANGED << variant, partner_urls, idx, trace, results, scan_results, scanning, driver,
                    quit_drivers, result_queue, workers, ui, input, output >>

(***************************************************************************)
(* HeadlessScanner.run_scan.                                               *)
(***************************************************************************)
\* setup_driver inside the try of run_scan: a failure leaves through the finally and raises
HeadlessSetupDriver ==
    /\ variant = "headless" /\ pc = "start"
    /\ \E ok \in BOOLEAN :
         IF ok THEN driver' = 1 /\ pc' = "scanning"
         ELSE driver' = 0 /\ pc' = "failed"
    /\ UNCHANGED << variant, partner_urls, idx, trace, results, scan_results, report, scanning,
                    quit_drivers, result_queue, workers, ui, input, output >>

\* one iteration of the loop of run_scan: the name, scan_partner, the dict entry, the pause
HeadlessScanPartner ==
    /\ variant = "headless" /\ pc = "scanning" /\ idx < Len(partner_urls)
    /\ \E outcome \in OutcomesAt(partner_urls[idx + 1]) :
         LET url == partner_urls[idx + 1]
             name == partner_name(url)
         IN  IF name = IndexError
             THEN /\ pc' = "crashed"
                  /\ quit_drivers' = quit_drivers \cup {driver}
                  /\ UNCHANGED << idx, trace, scan_results >>
             ELSE /\ scan_results' = dict_set(scan_results, Headless_scan_partner(url, name, outcome))
                  /\ idx' = idx + 1
                  /\ trace' = trace \o << << "get", url, outcome.kind, Len(outcome.cards) >>,
                                      << "sleep" >> >>
                  /\ UNCHANGED << pc, quit_drivers >>
    /\ UNCHANGED << variant, partner_urls, results, report, scanning, driver, result_queue,
                    workers, ui, input, output >>

\* the finally of run_scan and the report it returns
HeadlessFinish ==
    /\ variant = "headless" /\ pc = "scanning" /\ idx = Len(partner_urls)
    /\ quit_drivers' = quit_drivers \cup {driver}
    /\ report' = << Headless_generate_report(scan_results) >>
    /\ pc' = "done"
    /\ UNCHANGED << variant, partner_urls, idx, trace, results, scan_results, scanning, driver,
                    result_queue, workers, ui, input, output >>

(***************************************************************************)
(* LiveDomainScanner: the UI thread (start_scan, stop_scan and the         *)
(* process_results tick) and the scan_worker threads.  Worker w is         *)
(* workers[w]; the driver object worker w creates has the id w.  A message *)
(* carries the id of the worker that put it (field by, not in the code).   *)
(***************************************************************************)
\* the fields of the scanner the UI thread's handlers read and write
UiState ==
    [ scanning |-> scanning, driver |-> driver, quit_drivers |-> quit_drivers,
      scan_results |-> scan_results, report |-> report, ui |-> ui ]

\* LiveDomainScanner.stop_scan
stop_scan(st) ==
    [ st EXCEPT !.scanning = FALSE,
                !.ui = [ @ EXCEPT !.scan_btn = "normal", !.stop_btn = "disabled",
                                  !.status_bar = << "Scan stopped" >> ],
                !.quit_drivers = IF st.driver # 0 THEN @ \cup {st.driver} ELSE @,
                !.driver = 0 ]

\* LiveDomainScanner.scan_completed
scan_completed(st) ==
    [ st EXCEPT !.scanning = FALSE,
                !.ui = [ @ EXCEPT !.scan_btn = "normal", !.stop_btn = "disabled",
                                  !.export_btn = "normal",
                                  !.status_bar = << "Scan completed!" >> ],
                !.report = << Live_generate_full_scan_data(st.scan_results) >> ]

\* the branches of process_results on one message
handle_message(st, msg) ==
    CASE msg.type = "status" ->
           [ st EXCEPT !.ui = [ @ EXCEPT !.status_bar = << "Scanning", msg.partner >> ] ]
      [] msg.type = "result" ->
           [ st EXCEPT !.scan_results = dict_set(@, msg.result) ]
      [] msg.type = "progress" ->
           [ st EXCEPT !.ui = [ @ EXCEPT !.progress = msg.progress ] ]
      [] msg.type = "complete" -> scan_completed(st)
      [] msg.type = "error" -> stop_scan(st)

\* the while loop of process_results: get_nowait until the queue is empty
RECURSIVE drain(_, _)
drain(st, queue) ==
    IF queue = << >> THEN st
    ELSE CHOOSE after \in { drain(s, q) : s \in { handle_message(st, Head(queue)) },
                                          q \in { Tail(queue) } } : TRUE

SetUiState(st) ==
    /\ scanning' = st.scanning
    /\ driver' = st.driver
    /\ quit_drivers' = st.quit_drivers
    /\ scan_results' = st.scan_results
    /\ report' = st.report
    /\ ui' = st.ui

\* LiveDomainScanner.start_scan, on a click of the enabled Start Scan button
StartScan ==
    /\ variant = "live" /\ ui.scan_btn = "normal" /\ Len(workers) + 1 \in WorkerIds
    /\ ~scanning
    /\ scanning' = TRUE
    /\ ui' = [ ui EXCEPT !.scan_btn = "disabled", !.stop_btn = "normal",
                         !.export_btn = "disabled", !.progress = 0 ]
    /\ scan_results' = << >>
    /\ workers' = Append(workers, [pc |-> "setup", i |-> 0])
    /\ UNCHANGED << variant, partner_urls, pc, idx, trace, results, report, driver, quit_drivers,
                    result_queue, input, output >>

\* LiveDomainScanner.stop_scan, on a click of the enabled Stop Scan button
StopScan ==
    /\ variant = "live" /\ ui.stop_btn = "normal"
    /\ SetUiState(stop_scan(UiState))
    /\ UNCHANGED << variant, partner_urls, pc, idx, trace, results, result_queue, workers,
                    input, output >>

ProcessResults_mut ==
    /\ variant = "live" /\ result_queue # << >> /\ scanning
    /\ \E st \in { drain(UiState, result_queue) } : SetUiState(st)
    /\ result_queue' = << >>
    /\ UNCHANGED << variant, partner_urls, pc, idx, trace, results, workers, input, output >>

\* one tick of LiveDomainScanner.process_results that finds messages
ProcessResults ==
    /\ variant = "live" /\ result_queue # << >>
    /\ \E st \in { drain(UiState, result_queue) } : SetUiState(st)
    /\ result_queue' = << >>
    /\ UNCHANGED << variant, partner_urls, pc, idx, trace, results, workers, input, output >>

put(msg) == result_queue' = Append(result_queue, msg)

goto(w, label) == workers' = [ workers EXCEPT ![w].pc = label ]

\* scan_worker, lines 236-245: the driver is created, or the except branch reports the error
WorkerSetup(w) ==
    /\ workers[w].pc = "setup"
    /\ \E ok \in BOOLEAN :
         IF ok THEN driver' = w /\ goto(w, "loop") /\ UNCHANGED result_queue
         ELSE /\ put([type |-> "error", error |-> "str(e)", by |-> w])
              /\ goto(w, "finally")
              /\ UNCHANGED driver
    /\ UNCHANGED << variant, partner_urls, pc, idx, trace, results, scan_results, report,
                    scanning, quit_drivers, ui, input, output >>

\* scan_worker, lines 248-257 and 272: the top of an iteration, or the end of the loop
WorkerIterate(w) ==
    /\ workers[w].pc = "loop"
    /\ LET i == workers[w].i
       IN  IF i = Len(partner_urls) \/ ~scanning
           THEN put([type |-> "complete", by |-> w]) /\ goto(w, "finally")
           ELSE IF partner_name(partner_urls[i + 1]) = IndexError
           THEN put([type |-> "error", error |-> "str(e)", by |-> w]) /\ goto(w, "finally")
           ELSE /\ put([type |-> "status", partner |-> partner_name(partner_urls[i + 1]), by |-> w])
                /\ goto(w, "scan")
    /\ UNCHANGED << variant, partner_urls, pc, idx, trace, results, scan_results, report,
                    scanning, driver, quit_drivers, ui, input, output >>

\* the fetches the workers have made
RECURSIVE fetches(_)
fetches(ws) ==
    IF ws = << >> THEN 0
    ELSE Head(ws).i + (IF Head(ws).pc = "progress" THEN 1 ELSE 0) + fetches(Tail(ws))

\* scan_worker, lines 260-263: scan_partner on self.driver and the result message
WorkerScan(w) ==
    /\ workers[w].pc = "scan"
    /\ fetches(workers) + 1 \in FetchNumbers
    /\ \E outcome \in LiveOutcomes :
         LET url == partner_urls[workers[w].i + 1]
         IN  /\ (driver = 0 \/ driver \in quit_drivers) => outcome.kind = "exception"
             /\ put([type |-> "result", result |-> Live_scan_partner(url, partner_name(url), outcome),
                     by |-> w])
    /\ goto(w, "progress")
    /\ UNCHANGED << variant, partner_urls, pc, idx, trace, results, scan_results, report,
                    scanning, driver, quit_drivers, ui, input, output >>

\* scan_worker, lines 266-269: the progress message and the pause
WorkerProgress(w) ==
    /\ workers[w].pc = "progress"
    /\ put([type |-> "progress", progress |-> workers[w].i + 1, by |-> w])
    /\ workers' = [ workers EXCEPT ![w].pc = "loop", ![w].i = @ + 1 ]
    /\ UNCHANGED << variant, partner_urls, pc, idx, trace, results, scan_results, report,
                    scanning, driver, quit_drivers, ui, input, output >>

\* scan_worker, lines 276-279: the finally quits whatever self.driver holds
WorkerFinally(w) ==
    /\ workers[w].pc = "finally"
    /\ quit_drivers' = IF driver # 0 THEN quit_drivers \cup {driver} ELSE quit_drivers
    /\ driver' = 0
    /\ goto(w, "done")
    /\ UNCHANGED << variant, partner_urls, pc, idx, trace, results, scan_results, report,
                    scanning, result_queue, ui, input, output >>

Worker(w) ==
    \/ WorkerSetup(w)
    \/ WorkerIterate(w)
    \/ WorkerScan(w)
    \/ WorkerProgress(w)
    \/ WorkerFinally(w)

Next ==
    \/ TrackerInit
    \/ TrackerScanPartner
    \/ TrackerFinish
    \/ HeadlessSetupDriver
    \/ HeadlessScanPartner
    \/ HeadlessFinish
    \/ StartScan
    \/ StopScan
    \/ ProcessResults
    \/ \E w \in 1..Len(workers) : Worker(w)

Spec == Init /\ [][Next]_vars

\* process_results re-arms itself with root.after(100, ...) in its finally block, so the
\* Tk main loop runs a tick again and again
\* the live scanner alone, in a session with one click on Start Scan
InitLive == Init /\ variant = "live"

FairWorkerIds == {1}

LiveNext ==
    \/ StartScan /\ Len(workers') \in FairWorkerIds
    \/ StopScan
    \/ ProcessResults
    \/ \E w \in 1..Len(workers) : Worker(w)

FairSpec == InitLive /\ [][LiveNext]_vars /\ WF_vars(ProcessResults)

(***************************************************************************)
(* Harness of the card parsers: one card, parsed by each variant.          *)
(***************************************************************************)
InitCard ==
    /\ variant = "card_parser"
    /\ partner_urls = << >>
    /\ pc = "start"
    /\ input \in { Some(c) : c \in ParserCards }
    /\ Idle

ParseCard ==
    /\ variant = "card_parser" /\ pc = "start"
    /\ output' = Some([ tracker  |-> Tracker_extract_domain_info(input[1]),
                        headless |-> Headless_extract_domain_info(input[1]),
                        live     |-> Live_extract_domain_info(input[1]) ])
    /\ pc' = "done"
    /\ UNCHANGED << variant, partner_urls, idx, trace, results, scan_results, report, scanning,
                    driver, quit_drivers, result_queue, workers, ui, input >>

SpecCard == InitCard /\ [][ParseCard]_vars

(***************************************************************************)
(* Harness of the priority classifiers: one page aggregate, classified as  *)
(* each variant classifies it.                                             *)
(***************************************************************************)
InitClassify ==
    /\ variant = "classifier"
    /\ partner_urls = << >>
    /\ pc = "start"
    /\ input \in { Some([has_domains |-> h, sold |-> sold, total |-> total]) :
                     h \in BOOLEAN, total \in 0..MaxTotal, sold \in 0..MaxTotal }
    /\ input[1].sold <= input[1].total
    /\ Idle

\* the aggregate as scan_partner leaves it in a ScanResult
aggregate(in) ==
    [ has_domains |-> in.has_domains, total_domains |-> in.total, sold_domains |-> in.sold,
      percentage_sold |-> round2(percentage(in.sold, in.total)) ]

Classify ==
    /\ variant = "classifier" /\ pc = "start"
    /\ output' = Some([ tracker  |-> Tracker_needs_update(percentage(input[1].sold, input[1].total),
                                                          input[1].sold, input[1].total,
                                                          input[1].has_domains),
                        headless |-> Headless_needs_update_info(aggregate(input[1])),
                        live     |-> Live_needs_update_info(aggregate(input[1])) ])
    /\ pc' = "done"
    /\ UNCHANGED << variant, partner_urls, idx, trace, results, scan_results, report, scanning,
                    driver, quit_drivers, result_queue, workers, ui, input >>

SpecClassify == InitClassify /\ [][Classify]_vars

(***************************************************************************)
(* The sources of the partner list: get_all_urls of partner_urls.py on the *)
(* module's two lists, and get_urls_from_sheet on the rows of the sheet.   *)
(* A row is the list of its cells; values[1] is the header row.            *)
(***************************************************************************)
\* list(dict.fromkeys(urls)): the first occurrence of each URL, in order
RECURSIVE dict_fromkeys(_)
dict_fromkeys(urls) ==
    IF urls = << >> THEN << >>
    ELSE LET before == dict_fromkeys(SubSeq(urls, 1, Len(urls) - 1))
             url == urls[Len(urls)]
         IN  IF \E k \in 1..Len(before) : before[k] = url THEN before ELSE Append(before, url)

\* get_subpage inside get_all_urls
get_subpage(url) == IF partner_name(url) = IndexError THEN IndexError ELSE lower(partner_name(url))

\* get_all_urls: the returned list, and the module's lists after the call (the function
\* works on LAUNCHED_URLS.copy())
get_all_urls(LAUNCHED_URLS, NOT_LAUNCHED_URLS, include_not_launched) ==
    LET urls == dict_fromkeys(LAUNCHED_URLS \o (IF include_not_launched THEN NOT_LAUNCHED_URLS
                                                ELSE << >>))
    IN  [ urls              |-> values_of(sorted([ k \in 1..Len(urls) |->
                                             [key |-> get_subpage(urls[k]), val |-> urls[k]] ])),
          LAUNCHED_URLS     |-> LAUNCHED_URLS,
          NOT_LAUNCHED_URLS |-> NOT_LAUNCHED_URLS ]

Str_launched == << "l", "a", "u", "n", "c", "h", "e", "d" >>

Str_not_launched == << "n", "o", "t", "_", "l", "a", "u", "n", "c", "h", "e", "d" >>

Str_Not_Launched_padded == << "N", "o", "t", "_", "L", "a", "u", "n", "c", "h", "e", "d", " " >>

\* url = row[0].strip() if len(row) > 0 else '', with the slash the loop appends
row_url(row) ==
    LET url == IF Len(row) > 0 THEN strip(row[1]) ELSE << >>
    IN  IF url = << >> \/ last(url) = "/" THEN url ELSE Append(url, "/")

\* status = row[1].strip().lower() if len(row) > 1 else 'launched'
row_status(row) == IF Len(row) > 1 THEN lower(strip(row[2])) ELSE Str_launched

\* the loop of get_urls_from_sheet over values[1:]
RECURSIVE parse_rows(_, _)
parse_rows(rows, include_not_launched) ==
    IF rows = << >> THEN << >>
    ELSE LET row == Head(rows)
             rest == parse_rows(Tail(rows), include_not_launched)
         IN  IF row = << >> \/ row_url(row) = << >> THEN rest
             ELSE IF row_status(row) = Str_not_launched /\ ~include_not_launched THEN rest
             ELSE << row_url(row) >> \o rest

\* get_urls_from_sheet, from the fetched values on
get_urls_from_sheet(values, include_not_launched) ==
    IF values = << >> THEN [ urls |-> << >> ]
    ELSE [ urls |-> sheet_sort(parse_rows(Tail(values), include_not_launched)) ]

\* the header row of the sheet
Header == << << "U" >>, << "S" >> >>

\* the rows of a sheet: an empty row, a URL alone, with and without its final slash, a blank
\* URL cell, and rows with a status cell
Rows ==
    { << >>, << U_a >>, << U_a_bare >>, << << " " >> >>, << U_C, Str_launched >>,
      << U_b, Str_not_launched >>, << U_b, Str_Not_Launched_padded >> }

Sheets ==
    { << >> } \cup { << Header >> \o rows : rows \in { << >> } \cup { << r >> : r \in Rows }
                                                   \cup { << r, q >> : r \in Rows, q \in Rows } }

\* what LAUNCHED_URLS and NOT_LAUNCHED_URLS can hold
UrlLists ==
    { << >>, << U_a >>, << U_b >>, << U_C, U_a >>, << U_b, U_C >>, << U_a, U_b >>, << U_a, U_a >> }

InitUrls ==
    /\ variant = "url_source"
    /\ partner_urls = << >>
    /\ pc = "start"
    /\ input \in { Some([source |-> "local", include_not_launched |-> inc,
                         LAUNCHED_URLS |-> l, NOT_LAUNCHED_URLS |-> n]) :
                     inc \in BOOLEAN, l \in UrlLists, n \in UrlLists }
                 \cup { Some([source |-> "sheet", include_not_launched |-> inc, values |-> v]) :
                          inc \in BOOLEAN, v \in Sheets }
    /\ Idle

\* one call of get_urls_with_fallback's source
LoadUrls ==
    /\ variant = "url_source" /\ pc = "start"
    /\ output' = Some(IF input[1].source = "local"
                      THEN get_all_urls(input[1].LAUNCHED_URLS, input[1].NOT_LAUNCHED_URLS,
                                        input[1].include_not_launched)
                      ELSE get_urls_from_sheet(input[1].values, input[1].include_not_launched))
    /\ pc' = "done"
    /\ UNCHANGED << variant, partner_urls, idx, trace, results, scan_results, report, scanning,
                    driver, quit_drivers, result_queue, workers, ui, input >>

SpecUrls == InitUrls /\ [][LoadUrls]_vars

(***************************************************************************)
(* Properties.                                                             *)
(***************************************************************************)
HasReport == report # << >>

ReportResults == report[1].results

Summary == report[1].summary

SuccessEntries == { k \in 1..Len(ReportResults) : ~is_error_entry(ReportResults[k]) }

Gets == SelectSeq(trace, LAMBDA e : e[1] = "get")

FailedKinds == {"webdriver_error", "exception"}

abs(x) == IF x < 0 THEN -x ELSE x

\* C1: the report of a completed scan has exactly one results entry per input URL, also
\* when two URLs share their last path segment or one URL occurs twice.
C1_OneEntryPerUrl ==
    HasReport =>
        /\ Len(ReportResults) = Len(partner_urls)
        /\ \A k \in 1..Len(partner_urls) :
             Cardinality({ j \in 1..Len(ReportResults) : ReportResults[j].url = partner_urls[k] })
             = Cardinality({ j \in 1..Len(partner_urls) : partner_urls[j] = partner_urls[k] })

\* C2: when the fetch or the parsing of partner k fails, the run goes on through every
\* partner, partner k's entry is an error entry with has_premium_domains = false, and
\* the summary counts it under failed_scans only.
C2_FailedPartnerIsErrorEntry ==
    (variant \in {"tracker", "headless"} /\ pc = "done") =>
        /\ Len(Gets) = Len(partner_urls)
        /\ \A k \in 1..Len(Gets) :
             /\ Gets[k][2] = partner_urls[k]
             /\ Gets[k][3] \in FailedKinds =>
                  \E j \in 1..Len(ReportResults) :
                      /\ ReportResults[j].url = partner_urls[k]
                      /\ ReportResults[j].partner = partner_name(partner_urls[k])
                      /\ is_error_entry(ReportResults[j])
                      /\ ~ReportResults[j].has_premium_domains
        /\ Summary.failed_scans = Cardinality({ k \in 1..Len(Gets) : Gets[k][3] \in FailedKinds })
        /\ Summary.successful_scans
             = Cardinality({ k \in 1..Len(Gets) : Gets[k][3] \notin FailedKinds })

\* C3: in every report, total_partners_scanned = successful_scans + failed_scans, and
\* total_partners_scanned is the number of entries in results.
C3_SummaryCounts ==
    HasReport =>
        /\ Summary.total_partners_scanned = Summary.successful_scans + Summary.failed_scans
        /\ Summary.total_partners_scanned = Len(ReportResults)

C3_Witness ==
    /\ variant = "live" /\ HasReport
    /\ Summary.failed_scans = 1 /\ Summary.successful_scans = 1

\* C4: in every success entry, total_domains = sold_domains + available_domains, none of
\* the three negative, whatever the statuses of the page's cards.
C4_TotalIsSoldPlusAvailable ==
    HasReport =>
        \A k \in SuccessEntries :
            LET e == ReportResults[k]
            IN  /\ e.total_domains = e.sold_domains + e.available_domains
                /\ e.total_domains >= 0 /\ e.sold_domains >= 0 /\ e.available_domains >= 0

C4_Witness ==
    /\ variant = "headless" /\ HasReport
    /\ \E k \in SuccessEntries :
         LET e == ReportResults[k]
         IN  /\ e.sold_domains = 1 /\ e.available_domains = 2
             /\ \E d \in 1..Len(e.domains) : e.domains[d].status = "coming_soon"
             /\ \E d \in 1..Len(e.domains) : e.domains[d].status = "error"

\* C5: in every success entry, percentage_sold is sold_domains / total_domains * 100 to
\* the nearest hundredth when total_domains > 0 and 0 when total_domains = 0, and lies
\* between 0 and 100.
C5_PercentageSold ==
    HasReport =>
        \A k \in SuccessEntries :
            LET e == ReportResults[k]
            IN  /\ e.total_domains > 0 =>
                     2 * abs(e.percentage_sold * e.total_domains - e.sold_domains * 10000)
                       <= e.total_domains
                /\ e.total_domains = 0 => e.percentage_sold = 0
                /\ e.percentage_sold >= 0 /\ e.percentage_sold <= 10000

C5_Witness ==
    /\ variant = "tracker" /\ HasReport
    /\ \E k \in SuccessEntries :
         LET e == ReportResults[k]
         IN  e.total_domains = 3 /\ e.sold_domains = 2 /\ e.percentage_sold = 6667

\* C6: DomainTracker._needs_update applies its rules in order, the first match winning:
\* no premium domains -> (false, none); at least 90 percent sold -> (true, high); at
\* least 75 -> (true, medium); sold = total -> (true, high); else (false, low, no reason).
C6_TrackerClassifier ==
    (variant = "classifier" /\ output # << >>) =>
        LET in == input[1]
            c == output[1].tracker
            at_least(k) == in.total > 0 /\ in.sold * 100 >= k * in.total
        IN  IF ~in.has_domains THEN ~c.needs_update /\ c.priority = "none"
            ELSE IF at_least(90) THEN c.needs_update /\ c.priority = "high"
            ELSE IF at_least(75) THEN c.needs_update /\ c.priority = "medium"
            ELSE IF in.sold = in.total THEN c.needs_update /\ c.priority = "high"
            ELSE ~c.needs_update /\ c.priority = "low" /\ c.reason = << >>

C6_Witness ==
    /\ variant = "classifier" /\ output # << >>
    /\ input[1] = [has_domains |-> TRUE, sold |-> 8, total |-> 10]
    /\ output[1].tracker.priority = "medium" /\ output[1].tracker.needs_update

\* C7: the three variants write the same (needs_update, priority) for the same
\* (has_domains, sold, total); stated over the aggregates a scanned page can give, where
\* has_domains holds exactly when total > 0.
C7_OneThresholdPolicy ==
    (variant = "classifier" /\ output # << >> /\ (input[1].has_domains <=> input[1].total > 0)) =>
        LET verdict(c) == << c.needs_update, c.priority >>
        IN  /\ verdict(output[1].tracker) = verdict(output[1].headless)
            /\ verdict(output[1].headless) = verdict(output[1].live)

ButtonOf(card) == card.button[1]

LoweredText(card) == lower(strip(ButtonOf(card).text))

Variants == {"tracker", "headless", "live"}

\* C8: in every variant's card parser the button text decides first: 'sold' in any case
\* gives sold, 'coming soon' coming_soon, 'buy now' available, whatever class or
\* attribute the button has; a card without button is available with empty button_text.
C8_StatusFromButtonText ==
    (variant = "card_parser" /\ output # << >> /\ ~input[1].broken) =>
        \A v \in Variants :
            LET card == input[1]
                r == output[1][v]
            IN  IF card.button = Absent
                THEN r.status = "available" /\ r.button_text = EmptyStr
                ELSE /\ LoweredText(card) = Txt_sold => r.status = "sold"
                     /\ LoweredText(card) = Txt_coming_soon => r.status = "coming_soon"
                     /\ LoweredText(card) = Txt_buy_now => r.status = "available"

NoTextRule(card) ==
    /\ LoweredText(card) \notin { Txt_sold, Txt_coming_soon, Txt_buy_now }
    /\ ~startswith(LoweredText(card), Txt_available)

\* C9: when no button-text rule matches, every variant's card parser gives sold exactly
\* when the button has the 'sold' class and a disabled attribute (valueless included),
\* and available otherwise.
C9_ClassAndDisabledFallback ==
    (variant = "card_parser" /\ output # << >> /\ ~input[1].broken
       /\ input[1].button # Absent /\ NoTextRule(input[1])) =>
        \A v \in Variants :
            output[1][v].status =
                IF ButtonOf(input[1]).sold_class /\ ButtonOf(input[1]).disabled # Absent
                THEN "sold" ELSE "available"

\* C10: a button text that starts with 'available' gives coming_soon in every variant's
\* card parser.
C10_AvailablePrefixIsComingSoon ==
    (variant = "card_parser" /\ output # << >> /\ ~input[1].broken
       /\ input[1].button # Absent /\ startswith(LoweredText(input[1]), Txt_available)) =>
        \A v \in Variants : output[1][v].status = "coming_soon"

\* C11: the card parser of every variant returns a record for every card; when parsing the
\* card fails inside, the record has status 'error', an empty domain name, an empty price,
\* price_numeric 0 and a diagnostic message.
C11_ErrorRecord ==
    (variant = "card_parser" /\ output # << >> /\ input[1].broken) =>
        \A v \in Variants :
            LET r == output[1][v]
            IN  /\ r.status = "error"
                /\ r.domain = EmptyStr
                /\ r.price = EmptyStr
                /\ r.price_numeric = 0
                /\ "error" \in DOMAIN r

\* what the price rule gives for each price text of the inputs
ExpectedPrice(price) ==
    CASE price = Absent               -> [price |-> EmptyStr, price_numeric |-> 0]
      [] price = Some(Str_250_USD)    -> [price |-> << "$", "2", "5", "0" >>, price_numeric |-> 250]
      [] price = Some(Str_Contact_us) -> [price |-> EmptyStr, price_numeric |-> 0]
      [] price = Some(Str_5_to_30)    -> [price |-> << "$", "5" >>, price_numeric |-> 5]
      [] price = Some(Str_dollar_gap) -> [price |-> EmptyStr, price_numeric |-> 0]
      [] price = Some(Str_US_1_250)   -> [price |-> << "$", "1" >>, price_numeric |-> 1]

\* C12: price_numeric is the integer of the first run of digits directly after a '$' in the
\* price text and price is '$' with those digits; without a price element or a '$<digits>'
\* the price is empty and price_numeric 0; price_numeric is never negative and the record is
\* no error record.
C12_PriceExtraction ==
    (variant = "card_parser" /\ output # << >> /\ ~input[1].broken) =>
        \A v \in Variants :
            LET r == output[1][v]
            IN  /\ r.price = ExpectedPrice(input[1].price).price
                /\ r.price_numeric = ExpectedPrice(input[1].price).price_numeric
                /\ r.price_numeric >= 0
                /\ r.status # "error"

C12_Witness ==
    /\ variant = "card_parser" /\ output # << >>
    /\ input[1].price = Some(Str_5_to_30)
    /\ output[1].live.price_numeric = 5 /\ output[1].live.price = << "$", "5" >>

\* the partner names of the scanned list are pairwise different
DistinctNames ==
    \A i, j \in 1..Len(partner_urls) :
        i # j => partner_name(partner_urls[i]) # partner_name(partner_urls[j])

\* C13: in the report of a sequential scan, the success entry of a partner has
\* has_premium_domains exactly when the page source read for it held at least one domain
\* card, also when the wait for the cards timed out; a page without cards and without
\* exception gives a success entry with has_premium_domains false and priority 'none'.
C13_HasDomainsIffCards ==
    (variant \in {"tracker", "headless"} /\ pc = "done" /\ DistinctNames) =>
        \A k \in 1..Len(Gets) : \A j \in 1..Len(ReportResults) :
            (ReportResults[j].url = Gets[k][2] /\ Gets[k][3] \notin FailedKinds) =>
                /\ ~is_error_entry(ReportResults[j])
                /\ ReportResults[j].has_premium_domains <=> Gets[k][4] > 0
                /\ Gets[k][4] = 0 => ReportResults[j].needs_update.priority = "none"

EntriesWithDomains ==
    SelectSeq(ReportResults, LAMBDA e : ~is_error_entry(e) /\ e.has_premium_domains)

\* C15: the summary's total domains, total sold and total sold value are the sums over
\* the success entries with premium domains, and overall_sell_through_rate is
\* total_sold / total_domains * 100 to the nearest hundredth, 0 when there are no domains.
C15_SummaryTotals ==
    HasReport =>
        LET total_domains == Summary.total_domains_across_all_partners
            total_sold == Summary.total_sold_across_all_partners
            rate == Summary.overall_sell_through_rate
        IN  /\ total_domains = sum(EntriesWithDomains, "total_domains")
            /\ total_sold = sum(EntriesWithDomains, "sold_domains")
            /\ Summary.total_sold_value = sum(EntriesWithDomains, "total_sold_value")
            /\ total_domains > 0 => 2 * abs(rate * total_domains - total_sold * 10000) <= total_domains
            /\ total_domains = 0 => rate = 0

C15_Witness ==
    /\ variant = "tracker" /\ HasReport
    /\ Len(EntriesWithDomains) = 2
    /\ \E k \in 1..Len(ReportResults) : is_error_entry(ReportResults[k])
    /\ Summary.total_domains_across_all_partners = 3
    /\ Summary.total_sold_across_all_partners = 2
    /\ Summary.total_sold_value = 500
    /\ Summary.overall_sell_through_rate = 6667

\* C16: partners_needing_update is the number of entries whose needs_update.needs_update is
\* true and high_priority_updates the number of entries whose priority is 'high'.
C16_UpdateCounts ==
    HasReport =>
        /\ Summary.partners_needing_update
             = Cardinality({ k \in SuccessEntries : ReportResults[k].needs_update.needs_update })
        /\ Summary.high_priority_updates
             = Cardinality({ k \in SuccessEntries : ReportResults[k].needs_update.priority = "high" })

C16_Witness ==
    /\ variant = "headless" /\ HasReport
    /\ Summary.partners_needing_update = 2 /\ Summary.high_priority_updates = 1
    /\ \E k \in SuccessEntries :
         ReportResults[k].percentage_sold = 5000 /\ ReportResults[k].needs_update.needs_update

\* C17: on the queue of the live scanner a 'status' message is directly followed by the
\* 'result' of the same partner and that by a 'progress' message, all of one worker with
\* no other message in between, and nothing of a worker follows its 'complete'.
C17_MessageOrder ==
    variant = "live" =>
        \A k \in 1..(Len(result_queue) - 1) :
            LET msg == result_queue[k]
                next == result_queue[k + 1]
            IN  /\ msg.type = "status" =>
                     /\ next.type = "result" /\ next.by = msg.by
                     /\ next.result.partner = msg.partner
                /\ msg.type = "result" => next.type = "progress" /\ next.by = msg.by
                /\ msg.type = "complete" =>
                     \A j \in (k + 1)..Len(result_queue) : result_queue[j].by # msg.by

C19_NoScanAfterStop ==
    [][ \A w \in 1..Len(workers) :
          (Len(workers) > w /\ workers[w].pc = "loop") => workers'[w].pc # "scan" ]_vars

\* C20: at most one scan_worker thread is executing at any time.
C20_SingleWorker ==
    Cardinality({ w \in 1..Len(workers) : workers[w].pc # "done" }) <= 1

(***************************************************************************)
(* Order of the run, set-up failures and partner names.                    *)
(***************************************************************************)
\* the workers that are between the start of a fetch and the end of the pause after it
Fetching == { w \in 1..Len(workers) : workers[w].pc \in {"scan", "progress"} }

\* C21: the partners are fetched one at a time in list order and a delay step lies between
\* the end of one fetch and the start of the next: in the tracker and the headless scanner
\* the k-th fetch is of partner_urls[k] and every fetch that is followed by anything is
\* followed by a sleep; in the live scanner no two workers are inside a fetch or its pause
C21_DelayBetweenFetches ==
    /\ variant \in {"tracker", "headless"} =>
         /\ \A k \in 1..Len(Gets) : Gets[k][2] = partner_urls[k]
         /\ \A k \in 1..(Len(trace) - 1) : trace[k][1] = "get" => trace[k + 1][1] = "sleep"
    /\ variant = "live" => Cardinality(Fetching) <= 1

\* a <= b on the lower-cased partner names of two entries
name_le(a, b) == ~str_lt(lower(b.partner), lower(a.partner))

\* the lower-cased names of the list are pairwise different, as in a list of get_all_urls
DistinctLowerNames ==
    \A i, j \in 1..Len(partner_urls) :
        lower(partner_name(partner_urls[i])) = lower(partner_name(partner_urls[j])) => i = j

\* C22: the results of DomainTracker are the entries of partner_urls in input order; the
\* results of HeadlessScanner.generate_report ascend in the lower-cased partner name, which
\* is the input order when the names of the list are pairwise different
C22_InputOrderPreserved ==
    HasReport =>
      /\ variant = "tracker" =>
           /\ Len(ReportResults) = Len(partner_urls)
           /\ \A i \in 1..Len(partner_urls) : ReportResults[i].url = partner_urls[i]
      /\ variant = "headless" =>
           /\ \A i, j \in 1..Len(ReportResults) : i < j => name_le(ReportResults[i], ReportResults[j])
           /\ DistinctLowerNames =>
                /\ Len(ReportResults) = Len(partner_urls)
                /\ \A i \in 1..Len(partner_urls) : ReportResults[i].url = partner_urls[i]

C22_Witness ==
    /\ variant = "headless" /\ HasReport /\ Len(ReportResults) = 3
    /\ ReportResults[3].partner = << "C" >>

\* the messages of worker w in the queue
messages_by(w, queue) == SelectSeq(queue, LAMBDA msg : msg.by = w)

\* C23: a WebDriver that cannot be initialised is fatal before any partner is processed: the
\* tracker and the headless scanner fetch nothing and make no report without a driver, a
\* worker whose set-up fails puts one 'error' message and nothing after it, and nothing but
\* a failed set-up ends a run early: no run crashes and every 'error' message comes from a
\* set-up
C23_SetupFailureIsFatal ==
    /\ [](variant \in {"tracker", "headless"} /\ driver = 0 =>
            trace = << >> /\ results = << >> /\ scan_results = << >> /\ report = << >>)
    /\ [](pc # "crashed")
    /\ [][ \A w \in 1..Len(workers) :
             /\ (workers[w].pc = "setup" /\ workers'[w].pc # "loop") =>
                  \/ workers'[w] = workers[w]
                  \/ /\ workers'[w].pc = "finally"
                     /\ result_queue' = Append(result_queue,
                                               [type |-> "error", error |-> "str(e)", by |-> w])
             /\ workers[w].pc \in {"finally", "done"} =>
                  /\ workers'[w].pc \in {"finally", "done"}
                  /\ Len(messages_by(w, result_queue')) <= Len(messages_by(w, result_queue))
             /\ ( /\ Len(result_queue') = Len(result_queue) + 1
                  /\ result_queue'[Len(result_queue')] = [type |-> "error", error |-> "str(e)", by |-> w] )
                  => workers[w].pc = "setup" ]_vars

\* the last non-empty path segment of url: the characters between the last character that
\* is no slash and the slash before it; << >> when url has no such character
last_segment(url) ==
    LET chars == { k \in 1..Len(url) : url[k] # "/" }
    IN  IF chars = { } THEN << >>
        ELSE LET e == CHOOSE k \in chars : \A m \in chars : m <= k
                 slashes == { k \in 1..e : url[k] = "/" }
                 b == IF slashes = { } THEN 0
                      ELSE CHOOSE k \in slashes : \A m \in slashes : m <= k
             IN  SubSeq(url, b + 1, e)

\* C24: the partner of a report entry, success or error, is the last non-empty path segment
\* of its URL, whether the URL ends in no, one or several slashes, and deriving the name
\* never raises out of the scan
C24_PartnerIsLastSegment ==
    /\ pc # "crashed"
    /\ HasReport => \A k \in 1..Len(ReportResults) :
                        ReportResults[k].partner = last_segment(ReportResults[k].url)

\* the URLs of a list
elements(urls) == { urls[k] : k \in 1..Len(urls) }

\* the URLs the input lists as launched: the elements of LAUNCHED_URLS, or the URLs of the
\* sheet rows whose status is not 'not_launched'
LaunchedUrls ==
    IF input[1].source = "local" THEN elements(input[1].LAUNCHED_URLS)
    ELSE { row_url(input[1].values[k]) :
             k \in { m \in 2..Len(input[1].values) : row_status(input[1].values[m]) # Str_not_launched } }

\* C25: the partner list of either source holds no URL twice, is ordered by the lower-cased
\* last path segment, holds a URL that is not launched only if include_not_launched, and
\* get_all_urls leaves LAUNCHED_URLS and NOT_LAUNCHED_URLS as they were
C25_PartnerList ==
    (variant = "url_source" /\ output # << >>) =>
      LET urls == output[1].urls
      IN  /\ \A i, j \in 1..Len(urls) : urls[i] = urls[j] => i = j
          /\ \A i, j \in 1..Len(urls) :
               i < j => ~str_lt(lower(last_segment(urls[j])), lower(last_segment(urls[i])))
          /\ ~input[1].include_not_launched => elements(urls) \subseteq LaunchedUrls
          /\ input[1].source = "local" =>
               /\ output[1].LAUNCHED_URLS = input[1].LAUNCHED_URLS
               /\ output[1].NOT_LAUNCHED_URLS = input[1].NOT_LAUNCHED_URLS

(***************************************************************************)
(* The end of a live run and the messages of earlier runs.                 *)
(***************************************************************************)
\* C26: a worker puts 'complete' only when its loop has scanned every URL, and the run is
\* shown as completed only then: a run that stop_scan cut short never reaches scan_completed
C26_CompleteOnlyAfterFullScan ==
    /\ \A k \in 1..Len(result_queue) :
         result_queue[k].type = "complete" =>
             workers[result_queue[k].by].i = Len(partner_urls)
    /\ ui.status_bar = << "Scan completed!" >> =>
         \E w \in 1..Len(workers) : workers[w].i = Len(partner_urls)

\* C27: after start_scan has cleared scan_results and reset the progress, every result that
\* process_results stores and every progress value it applies was put by the worker that
\* this start_scan started, which is the last of workers
C27_OnlyCurrentRunApplied ==
    [][ (result_queue # << >> /\ result_queue' = << >>) =>
          \A k \in 1..Len(result_queue) :
              result_queue[k].type \in {"result", "progress"} =>
                  result_queue[k].by = Len(workers) ]_vars

(***************************************************************************)
(* Consistency of the entries and of the summary.                          *)
(***************************************************************************)
\* C28: in DomainTracker a page with premium domains has at least one card, so the fourth
\* rule of _needs_update is never taken: no entry of a tracker report has the reason
\* 'Completely sold out', and a page whose cards are all sold is 'Almost sold out'
C28_NoCompletelySoldOut ==
    (variant = "tracker" /\ HasReport) =>
      \A k \in SuccessEntries :
          LET e == ReportResults[k]
          IN  /\ e.needs_update.reason # << "Completely sold out" >>
              /\ e.has_premium_domains => e.total_domains >= 1
              /\ (e.has_premium_domains /\ e.sold_domains = e.total_domains) =>
                   e.needs_update = classification(TRUE, "high",
                                      << "Almost sold out", e.sold_domains, e.total_domains >>)

C28_Witness ==
    /\ variant = "tracker" /\ HasReport
    /\ \E k \in SuccessEntries :
           /\ ReportResults[k].has_premium_domains
           /\ ReportResults[k].sold_domains = ReportResults[k].total_domains
           /\ ReportResults[k].needs_update.priority = "high"

\* the cards of an entry that are neither sold nor available
Unlisted(e) == SelectSeq(e.domains, LAMBDA d : d.status \in {"coming_soon", "error"})

\* C29: in every success entry sold_domains_list has sold_domains elements and
\* available_domains_list has at most available_domains elements, exactly as many when and
\* only when no card of the page is coming_soon or error
C29_ListLengths ==
    HasReport =>
      \A k \in SuccessEntries :
          LET e == ReportResults[k]
          IN  /\ Len(e.sold_domains_list) = e.sold_domains
              /\ Len(e.available_domains_list) <= e.available_domains
              /\ Len(e.available_domains_list) = e.available_domains <=> Unlisted(e) = << >>

C29_Witness ==
    /\ HasReport
    /\ \E k \in SuccessEntries :
           /\ Len(ReportResults[k].sold_domains_list) = 1
           /\ Len(ReportResults[k].available_domains_list) = 1
           /\ ReportResults[k].available_domains = 2
           /\ \E n \in 1..Len(ReportResults[k].domains) :
                  ReportResults[k].domains[n].status = "coming_soon"

\* C30: in every summary the pages with and without premium domains add up to the
\* successful scans, the high-priority updates are among the partners needing an update,
\* which are among the pages with premium domains, no more domains are sold than there
\* are, and the overall sell-through rate (in hundredths of a percent) is within 0..100 %
C30_SummaryBounds ==
    HasReport =>
      /\ Summary.pages_with_premium_domains + Summary.pages_without_premium_domains
           = Summary.successful_scans
      /\ Summary.high_priority_updates <= Summary.partners_needing_update
      /\ Summary.partners_needing_update <= Summary.pages_with_premium_domains
      /\ Summary.total_sold_across_all_partners <= Summary.total_domains_across_all_partners
      /\ 0 <= Summary.overall_sell_through_rate
      /\ Summary.overall_sell_through_rate <= 10000

C30_Witness ==
    /\ variant = "headless" /\ HasReport
    /\ Summary.failed_scans = 1
    /\ Summary.pages_without_premium_domains = 1
    /\ Summary.high_priority_updates = 1
    /\ Summary.partners_needing_update = 1

=============================================================================
